---- MODULE Spec2Model ----
(***************************************************************************)
(* A model of lib/cursor.js: the Cursor controller that wraps a writable   *)
(* stream and turns cursor operations into ANSI escape sequences.          *)
(*                                                                         *)
(* JavaScript strings are sequences of one-character strings (the escape   *)
(* character is the single element "ESC", the bell "BEL", a newline "\n"), *)
(* so that concatenation, ucFirst, number formatting and newline counting  *)
(* are computed as the code computes them.  Other JavaScript values are    *)
(* tagged records.                                                         *)
(***************************************************************************)
EXTENDS Integers, Sequences, FiniteSets

VARIABLES
    enabled,     \* this.enabled
    buffering,   \* this.buffering
    _buffer,     \* this._buffer: sequence of argument lists
    bold, italic, inverse, underline,   \* attribute defaults
    newlines,    \* this.newlines
    written,     \* calls received by stream.write, each an argument list
    dataEv,      \* 'data' events emitted on the stream, each its argument
    errorEv,     \* 'error' events emitted on the controller
    constructed, \* new Cursor(...) returned a controller
    newlineListeners,   \* 'newline' listeners the constructor subscribed on the stream
    op,          \* the last public operation called: [name, args]
    result,      \* how it ended: "this" (returned the controller) or the error thrown
    pre,         \* the controller and stream state before that operation
    run,         \* progress of a buffer(); write(p)...; flush() sequence
    accepted,    \* the payloads accepted so far, concatenated in call order
    budget       \* operations the model may still call

vars == <<enabled, buffering, _buffer, bold, italic, inverse, underline,
          newlines, written, dataEv, errorEv, constructed, newlineListeners,
          op, result, pre, run, accepted, budget>>

-----------------------------------------------------------------------------
(* Bounds of the model *)

\* operations called on one controller under Spec
MaxSteps == 3

\* operations called on one controller under SpecOrder
MaxOrderSteps == 4

\* operations called on one controller under SpecBuf
MaxBufSteps == 5

\* operations called after a construction under SpecCtor
MaxCtorSteps == 1

-----------------------------------------------------------------------------
(* JavaScript values *)

Undef == [t |-> "undefined"]
Null == [t |-> "null"]
Function == [t |-> "function"]
NaN == [t |-> "NaN"]
Infinity == [t |-> "Infinity"]
Bool(b) == [t |-> "boolean", b |-> b]
\* a number is the rational n / d: an integer has d = 1, a decimal such as 3.7
\* is 37 / 10 (d = 10 and n not a multiple of 10)
Num(n) == [t |-> "number", n |-> n, d |-> 1]
Tenths(n) == [t |-> "number", n |-> n, d |-> 10]
Str(s) == [t |-> "string", s |-> s]

\* ToBoolean: the values `if (v)`, `v || w` and `!!v` treat as false
Falsy(v) ==
    \/ v = Undef
    \/ v = Null
    \/ v = NaN
    \/ v = Bool(FALSE)
    \/ (v.t = "number" /\ v.n = 0)
    \/ v = Str(<<>>)

\* typeof v
typeOf(v) ==
    CASE v.t = "null" -> "object"
      [] v.t \in {"NaN", "Infinity"} -> "number"
      [] OTHER -> v.t

Digits == <<"0", "1", "2", "3", "4", "5", "6", "7", "8", "9">>

\* decimal digits of a natural number
RECURSIVE NatToString(_)
NatToString(n) ==
    IF n < 10 THEN <<Digits[n + 1]>>
    ELSE NatToString(n \div 10) \o <<Digits[(n % 10) + 1]>>

\* String(v), as `'' + v` computes it
JsString(v) ==
    CASE v.t = "string" -> v.s
      [] v.t = "undefined" -> <<"u", "n", "d", "e", "f", "i", "n", "e", "d">>
      [] v.t = "NaN" -> <<"N", "a", "N">>
      [] v.t = "Infinity" -> <<"I", "n", "f", "i", "n", "i", "t", "y">>
      [] v.t = "boolean" ->
            IF v.b THEN <<"t", "r", "u", "e">> ELSE <<"f", "a", "l", "s", "e">>
      [] v.t = "number" ->
            LET a == IF v.n < 0 THEN -v.n ELSE v.n
                sign == IF v.n < 0 THEN <<"-">> ELSE <<>>
            IN  IF v.d = 1 THEN sign \o NatToString(a)
                ELSE sign \o NatToString(a \div v.d) \o <<".">> \o NatToString(a % v.d)

\* ToNumber of a value, as unary `+v` computes it (strings are not passed as counts)
ToNumber(v) ==
    CASE v.t = "number" -> v
      [] v.t = "Infinity" -> v
      [] v.t = "boolean" -> IF v.b THEN Num(1) ELSE Num(0)
      [] OTHER -> NaN

-----------------------------------------------------------------------------
(* helpers of cursor.js *)

isUndefined(val) == val.t = "undefined"

Lower == <<"a", "b", "c", "d", "e", "f", "g", "h", "i", "j", "k", "l", "m",
           "n", "o", "p", "q", "r", "s", "t", "u", "v", "w", "x", "y", "z">>
Upper == <<"A", "B", "C", "D", "E", "F", "G", "H", "I", "J", "K", "L", "M",
           "N", "O", "P", "Q", "R", "S", "T", "U", "V", "W", "X", "Y", "Z">>

toUpperCase(c) ==
    IF \E i \in DOMAIN Lower : Lower[i] = c
    THEN Upper[CHOOSE i \in DOMAIN Lower : Lower[i] = c]
    ELSE c

\* ucFirst that leaves the first character as it is
ucFirst_asIs(str) == str

\* str.charAt(0).toUpperCase() + str.substring(1)
ucFirst(str) ==
    IF str = <<>> THEN <<>> ELSE <<toUpperCase(Head(str))>> \o Tail(str)

\* Math.floor of a number
floor(v) == Num(v.n \div v.d)

\* toAxis that drops the fraction, rounding toward zero
toAxis_truncates(val) ==
    LET v == ToNumber(val)
    IN  IF isUndefined(val) \/ v.t = "NaN" \/ v.t = "Infinity" THEN Num(1)
        ELSE IF v.n < 0 THEN Num(-((-v.n) \div v.d))
        ELSE Num(v.n \div v.d)

\* isUndefined(val) || isNaN(val) || !isFinite(val) ? 1 : Math.floor(val)
toAxis(val) ==
    IF isUndefined(val) \/ ToNumber(val).t = "NaN" \/ ToNumber(val).t = "Infinity"
    THEN Num(1)
    ELSE floor(ToNumber(val))

\* arr.join(sep): an undefined element joins as the empty string
RECURSIVE join(_, _)
join(arr, sep) ==
    LET first == IF arr[1] = Undef THEN <<>> ELSE JsString(arr[1])
    IN  IF arr = <<>> THEN <<>>
        ELSE IF Len(arr) = 1 THEN first
        ELSE first \o sep \o join(Tail(arr), sep)

\* arr.map(f) for the axis normalisation
mapToAxis(arr) == [i \in DOMAIN arr |-> toAxis(arr[i])]

-----------------------------------------------------------------------------
(* consts.js: the code tables the controller reads *)

prefix == <<"ESC", "[">>

beepCode == <<"BEL">>

n_moveUp == <<"m", "o", "v", "e", "U", "p">>
n_moveDown == <<"m", "o", "v", "e", "D", "o", "w", "n">>
n_forward == <<"f", "o", "r", "w", "a", "r", "d">>
n_backward == <<"b", "a", "c", "k", "w", "a", "r", "d">>
n_goto == <<"g", "o", "t", "o">>
n_deleteLine == <<"d", "e", "l", "e", "t", "e", "L", "i", "n", "e">>
n_deleteChar == <<"d", "e", "l", "e", "t", "e", "C", "h", "a", "r">>
n_eraseRight == <<"e", "r", "a", "s", "e", "R", "i", "g", "h", "t">>
n_eraseLeft == <<"e", "r", "a", "s", "e", "L", "e", "f", "t">>
n_eraseScreen == <<"e", "r", "a", "s", "e", "S", "c", "r", "e", "e", "n">>
n_hide == <<"h", "i", "d", "e">>
n_enable == <<"e", "n", "a", "b", "l", "e">>
n_disable == <<"d", "i", "s", "a", "b", "l", "e">>
n_write == <<"w", "r", "i", "t", "e">>
n__write == <<"_", "w", "r", "i", "t", "e">>
n_buffer == <<"b", "u", "f", "f", "e", "r">>
n_flush == <<"f", "l", "u", "s", "h">>
n_move == <<"m", "o", "v", "e">>
n_beep == <<"b", "e", "e", "p">>
n_erase == <<"e", "r", "a", "s", "e">>
n_delete == <<"d", "e", "l", "e", "t", "e">>
n_insert == <<"i", "n", "s", "e", "r", "t">>
n_save == <<"s", "a", "v", "e">>
n_restore == <<"r", "e", "s", "t", "o", "r", "e">>
n_emit == <<"e", "m", "i", "t">>

\* consts.movements: method name -> code
movementNames == {n_moveUp, n_moveDown, n_forward, n_backward, n_goto,
                  n_deleteLine, n_deleteChar}
movements ==
    [m \in movementNames |->
        CASE m = n_moveUp -> <<"A">>
          [] m = n_moveDown -> <<"B">>
          [] m = n_forward -> <<"C">>
          [] m = n_backward -> <<"D">>
          [] m = n_goto -> <<"H">>
          [] m = n_deleteLine -> <<"M">>
          [] m = n_deleteChar -> <<"P">>]

\* consts.actions: method name -> code
actionNames == {n_eraseRight, n_eraseLeft, n_eraseScreen, n_hide}
actions ==
    [m \in actionNames |->
        CASE m = n_eraseRight -> <<"K">>
          [] m = n_eraseLeft -> <<"1", "K">>
          [] m = n_eraseScreen -> <<"2", "J">>
          [] m = n_hide -> <<"?", "2", "5", "l">>]

\* consts.codes: the save and restore sequences
codes ==
    [saveCursor |-> <<"ESC", "7">>,
     savePosition |-> <<"ESC", "[", "s">>,
     restoreCursor |-> <<"ESC", "8">>,
     restorePosition |-> <<"ESC", "[", "u">>]

-----------------------------------------------------------------------------
(* The stream and its newline notifier *)

\* newline characters in a string
RECURSIVE countNewlines(_)
countNewlines(str) ==
    IF str = <<>> THEN 0
    ELSE (IF Head(str) = "\n" THEN 1 ELSE 0) + countNewlines(Tail(str))

\* emitNewlineEvent(stream): the 'newline' events one stream.write call raises
newlineEvents(args) ==
    IF args # <<>> /\ args[1].t = "string" THEN countNewlines(args[1].s) ELSE 0

\* a 'newline' listener that counts nothing
onNewline_lost(n) == n

\* the controller's 'newline' listener: this.newlines++
onNewline(n) == n + 1

\* the listener run once per event
RECURSIVE deliverNewlines(_, _)
deliverNewlines(n, events) ==
    IF events = 0 THEN n ELSE deliverNewlines(onNewline(n), events - 1)

\* stream.write.apply(stream, args), seen from the controller
streamWrite(s, args) ==
    [s EXCEPT !.written = Append(@, args),
              !.newlines = deliverNewlines(@, newlineEvents(args))]

\* stream.emit('data', data)
streamEmitData(s, data) == [s EXCEPT !.dataEv = Append(@, data)]

-----------------------------------------------------------------------------
(* Cursor: its methods as functions of the controller state s.               *)
(* s.thrown is "" while the call runs and names the error once one is thrown *)

\* the names defined on Cursor.prototype
prototypeNames ==
    {n_enable, n_disable, n_write, n__write, n_buffer, n_flush, n_move, n_beep,
     n_erase, n_delete, n_insert, n_save, n_restore}
    \cup movementNames \cup actionNames

\* this[name] is defined
hasMethod(name) == name \in prototypeNames

\* the first argument of a call, undefined when there is none
firstArg(args) == IF args = <<>> THEN Undef ELSE args[1]

enable(s) == [s EXCEPT !.enabled = TRUE]

disable(s) == [s EXCEPT !.enabled = FALSE]

\* write() gated by enabled like the escape-sequence methods
write_gated(s, args) ==
    IF ~s.enabled THEN s
    ELSE IF s.buffering
    THEN [s EXCEPT !._buffer = Append(@, args)]
    ELSE streamEmitData(streamWrite(s, args), firstArg(args))

write(s, args) ==
    IF s.buffering
    THEN [s EXCEPT !._buffer = Append(@, args)]
    ELSE streamEmitData(streamWrite(s, args), firstArg(args))

\* _write() that forgets the enabled gate
_write_ungated(s, data) == write(s, <<data>>)

_write(s, data) == IF s.enabled THEN write(s, <<data>>) ELSE s

\* buffer() that starts from an empty queue
buffer_resetsQueue(s) == [s EXCEPT !.buffering = TRUE, !._buffer = <<>>]

buffer(s) == [s EXCEPT !.buffering = TRUE]

\* flush() that leaves buffering set, so that its own write is queued again
flush_stillBuffering(s) ==
    LET output == join([i \in DOMAIN s._buffer |-> s._buffer[i][1]], <<>>)
    IN  IF \E i \in DOMAIN s._buffer : Len(s._buffer[i]) # 1
        THEN [s EXCEPT !.thrown = "Error"]
        ELSE write([s EXCEPT !._buffer = <<>>], <<Str(output)>>)

\* flush() that writes the entries before the first invalid one, then throws
flush_partial(s) ==
    LET s1 == [s EXCEPT !.buffering = FALSE]
        isBad(i) == Len(s1._buffer[i]) # 1
        bad == \E i \in DOMAIN s1._buffer : isBad(i)
        firstBad == CHOOSE i \in DOMAIN s1._buffer :
                        isBad(i) /\ \A j \in 1..(i - 1) : ~isBad(j)
        upTo == IF bad THEN firstBad - 1 ELSE Len(s1._buffer)
        output == join([i \in 1..upTo |-> s1._buffer[i][1]], <<>>)
        s2 == write([s1 EXCEPT !._buffer = <<>>], <<Str(output)>>)
    IN  IF bad THEN [s2 EXCEPT !.thrown = "Error"] ELSE s2

\* flush() that joins the queue last entry first
flush_reversed(s) ==
    LET s1 == [s EXCEPT !.buffering = FALSE]
        bad == \E i \in DOMAIN s1._buffer : Len(s1._buffer[i]) # 1
        n == Len(s1._buffer)
        output == join([i \in DOMAIN s1._buffer |-> s1._buffer[n + 1 - i][1]], <<>>)
    IN  IF bad THEN [s1 EXCEPT !.thrown = "Error"]
        ELSE write([s1 EXCEPT !._buffer = <<>>], <<Str(output)>>)

\* flush() that returns at once when nothing is queued
flush_skipsEmpty(s) ==
    LET s1 == [s EXCEPT !.buffering = FALSE]
        bad == \E i \in DOMAIN s1._buffer : Len(s1._buffer[i]) # 1
        output == join([i \in DOMAIN s1._buffer |-> s1._buffer[i][1]], <<>>)
    IN  IF s._buffer = <<>> THEN s1
        ELSE IF bad THEN [s1 EXCEPT !.thrown = "Error"]
        ELSE write([s1 EXCEPT !._buffer = <<>>], <<Str(output)>>)

\* flush() that empties the queue before it throws
flush_clearsOnFailure(s) ==
    LET s1 == [s EXCEPT !.buffering = FALSE]
        bad == \E i \in DOMAIN s1._buffer : Len(s1._buffer[i]) # 1
        output == join([i \in DOMAIN s1._buffer |-> s1._buffer[i][1]], <<>>)
    IN  IF bad THEN [s1 EXCEPT !.thrown = "Error", !._buffer = <<>>]
        ELSE write([s1 EXCEPT !._buffer = <<>>], <<Str(output)>>)

\* flush() that delivers through the enabled gate
flush_gated(s) ==
    LET s1 == [s EXCEPT !.buffering = FALSE]
        bad == \E i \in DOMAIN s1._buffer : Len(s1._buffer[i]) # 1
        output == join([i \in DOMAIN s1._buffer |-> s1._buffer[i][1]], <<>>)
    IN  IF bad THEN [s1 EXCEPT !.thrown = "Error"]
        ELSE _write([s1 EXCEPT !._buffer = <<>>], Str(output))

flush(s) ==
    LET s1 == [s EXCEPT !.buffering = FALSE]
        bad == \E i \in DOMAIN s1._buffer : Len(s1._buffer[i]) # 1
        output == join([i \in DOMAIN s1._buffer |-> s1._buffer[i][1]], <<>>)
    IN  IF bad THEN [s1 EXCEPT !.thrown = "Error"]
        ELSE write([s1 EXCEPT !._buffer = <<>>], <<Str(output)>>)

\* a method generated from consts.movements
movement(s, methodName, args) ==
    LET code == movements[methodName]
        c == IF Len(args) > 0 THEN join(mapToAxis(args), <<";">>) \o code ELSE code
    IN  _write(s, Str(prefix \o c))

\* a method generated from consts.actions
action(s, methodName) == _write(s, Str(prefix \o actions[methodName]))

\* this[methodName](args...) for a generated method
callMethod(s, methodName, args) ==
    CASE methodName \in movementNames -> movement(s, methodName, args)
      [] methodName \in actionNames -> action(s, methodName)
      [] OTHER -> [s EXCEPT !.thrown = "TypeError"]

\* v < 0 and v > 0 of JavaScript
lessThanZero(v) == ToNumber(v).t = "number" /\ ToNumber(v).n < 0
greaterThanZero(v) ==
    \/ ToNumber(v).t = "Infinity"
    \/ (ToNumber(v).t = "number" /\ ToNumber(v).n > 0)

\* -v of a number
negate(v) == [v EXCEPT !.n = -@]

\* move() that handles the horizontal axis before the vertical one
move_horizontalFirst(s, x, y) ==
    LET s1 == IF lessThanZero(x) THEN callMethod(s, n_backward, <<negate(x)>>)
              ELSE IF greaterThanZero(x) THEN callMethod(s, n_forward, <<x>>)
              ELSE s
    IN  IF lessThanZero(y) THEN callMethod(s1, n_moveUp, <<negate(y)>>)
        ELSE IF greaterThanZero(y) THEN callMethod(s1, n_moveDown, <<y>>)
        ELSE s1

move(s, x, y) ==
    LET s1 == IF lessThanZero(y) THEN callMethod(s, n_moveUp, <<negate(y)>>)
              ELSE IF greaterThanZero(y) THEN callMethod(s, n_moveDown, <<y>>)
              ELSE s
    IN  IF lessThanZero(x) THEN callMethod(s1, n_backward, <<negate(x)>>)
        ELSE IF greaterThanZero(x) THEN callMethod(s1, n_forward, <<x>>)
        ELSE s1

beep(s) == _write(s, Str(beepCode))

\* this.emit('error', new Error(message)): Cursor.prototype defines no emit and
\* inherits none, so the call throws a TypeError where emit is not a method
emitError(s, message) ==
    IF hasMethod(n_emit)
    THEN [s EXCEPT !.errorEv = Append(@, message)]
    ELSE [s EXCEPT !.thrown = "TypeError"]

unknownErase == <<"U", "n", "k", "n", "o", "w", "n", " ", "e", "r", "a", "s", "e",
                  " ", "t", "y", "p", "e", ":", " ">>
unknownDelete == <<"U", "n", "k", "n", "o", "w", "n", " ", "d", "e", "l", "e", "t",
                   "e", " ", "t", "y", "p", "e", ":", " ">>
unknownInsert == <<"U", "n", "k", "n", "o", "w", "n", " ", "i", "n", "s", "e", "r",
                   "t", " ", "t", "y", "p", "e", ":", " ">>

erase(s, type) ==
    LET methodName == n_erase \o ucFirst(<<>> \o JsString(type))
        unknown == emitError(s, unknownErase \o JsString(type))
    IN  IF Falsy(type) THEN unknown
        ELSE IF type = Str(<<"$">>) THEN callMethod(s, n_eraseRight, <<>>)
        ELSE IF type = Str(<<"^">>) THEN callMethod(s, n_eraseLeft, <<>>)
        ELSE IF hasMethod(methodName) THEN callMethod(s, methodName, <<>>)
        ELSE unknown

delete(s, type, n) ==
    LET methodName == n_delete \o ucFirst(<<>> \o JsString(type))
    IN  IF ~Falsy(type) /\ hasMethod(methodName)
        THEN callMethod(s, methodName, <<n>>)
        ELSE emitError(s, unknownDelete \o JsString(type))

\* insert() without the `n = n || 1` default
insert_noDefault(s, mode, n) ==
    CASE mode = Bool(TRUE) -> _write(s, Str(prefix \o <<"4", "h">>))
      [] mode = Bool(FALSE) -> _write(s, Str(prefix \o <<"l">>))
      [] mode = Str(<<"l", "i", "n", "e">>) ->
            _write(s, Str(prefix \o JsString(ToNumber(n)) \o <<"L">>))
      [] mode = Str(<<"c", "h", "a", "r">>) ->
            _write(s, Str(prefix \o JsString(ToNumber(n)) \o <<"@">>))
      [] OTHER -> emitError(s, unknownInsert \o JsString(mode))

insert(s, mode, n) ==
    LET n1 == IF Falsy(n) THEN Num(1) ELSE n
    IN  CASE mode = Bool(TRUE) -> _write(s, Str(prefix \o <<"4", "h">>))
          [] mode = Bool(FALSE) -> _write(s, Str(prefix \o <<"l">>))
          [] mode = Str(<<"l", "i", "n", "e">>) ->
                _write(s, Str(prefix \o JsString(ToNumber(n1)) \o <<"L">>))
          [] mode = Str(<<"c", "h", "a", "r">>) ->
                _write(s, Str(prefix \o JsString(ToNumber(n1)) \o <<"@">>))
          [] OTHER -> emitError(s, unknownInsert \o JsString(mode))

\* save() with the two codes exchanged
save_swapped(s, withAttributes) ==
    IF s.enabled
    THEN write(s, <<Str(IF ~Falsy(withAttributes) THEN codes.savePosition
                        ELSE codes.saveCursor)>>)
    ELSE s

\* save() that writes its code to the stream itself, past write() and its queue
save_unbuffered(s, withAttributes) ==
    LET code == Str(IF ~Falsy(withAttributes) THEN codes.saveCursor
                    ELSE codes.savePosition)
    IN  IF s.enabled THEN streamEmitData(streamWrite(s, <<code>>), code) ELSE s

save(s, withAttributes) ==
    IF s.enabled
    THEN write(s, <<Str(IF ~Falsy(withAttributes) THEN codes.saveCursor
                        ELSE codes.savePosition)>>)
    ELSE s

restore(s, withAttributes) ==
    IF s.enabled
    THEN write(s, <<Str(IF ~Falsy(withAttributes) THEN codes.restoreCursor
                        ELSE codes.restorePosition)>>)
    ELSE s

-----------------------------------------------------------------------------
(* The state machine: one action per public operation *)

\* the controller and stream state as one record
Self ==
    [enabled |-> enabled, buffering |-> buffering, _buffer |-> _buffer,
     newlines |-> newlines, written |-> written, dataEv |-> dataEv,
     errorEv |-> errorEv, thrown |-> ""]

\* no buffer(); write(p)...; flush() sequence is under way
NoRun == [phase |-> "none", base |-> 0, payloads |-> <<>>]

\* the sequence under way after the call name(args): buffer() on an empty buffer
\* opens one, single-argument writes extend it, flush() completes it, and
\* any other call abandons it
RunAfter(name, args) ==
    IF name = "buffer" /\ _buffer = <<>>
    THEN [phase |-> "open", base |-> Len(written), payloads |-> <<>>]
    ELSE IF run.phase = "open" /\ name = "write" /\ Len(args) = 1
    THEN [run EXCEPT !.payloads = Append(@, args[1])]
    ELSE IF run.phase = "open" /\ name = "flush"
    THEN [run EXCEPT !.phase = "flushed"]
    ELSE NoRun

\* no record of accepted payloads is kept
NotTracked == [tracked |-> FALSE, text |-> <<>>]

\* the record of accepted payloads after the call name(args): a write of one
\* string is accepted as it is, a beep, an action, a save or a restore is
\* accepted when the controller is enabled, the flag setters and flush()
\* accept nothing, and any other call ends the record
AcceptedAfter(name, args) ==
    IF ~accepted.tracked THEN accepted
    ELSE IF name \in {"enable", "disable", "buffer", "flush"} THEN accepted
    ELSE IF name = "write"
    THEN (IF Len(args) = 1 /\ typeOf(args[1]) = "string"
          THEN [accepted EXCEPT !.text = @ \o args[1].s]
          ELSE NotTracked)
    ELSE IF name = "beep"
    THEN (IF enabled THEN [accepted EXCEPT !.text = @ \o beepCode] ELSE accepted)
    ELSE IF name = "action"
    THEN (IF enabled
          THEN [accepted EXCEPT !.text = @ \o prefix \o actions[args[1]]]
          ELSE accepted)
    ELSE IF name = "save"
    THEN (IF enabled
          THEN [accepted EXCEPT !.text = @ \o
                    (IF args[1] = Bool(TRUE) THEN codes.saveCursor
                     ELSE codes.savePosition)]
          ELSE accepted)
    ELSE IF name = "restore"
    THEN (IF enabled
          THEN [accepted EXCEPT !.text = @ \o
                    (IF args[1] = Bool(TRUE) THEN codes.restoreCursor
                     ELSE codes.restorePosition)]
          ELSE accepted)
    ELSE NotTracked

\* the operation `name(args)` was called and left the state r
Call(name, args, r) ==
    /\ budget' = budget - 1
    /\ accepted' = AcceptedAfter(name, args)
    /\ op' = [name |-> name, args |-> args]
    /\ pre' = Self
    /\ run' = RunAfter(name, args)
    /\ enabled' = r.enabled
    /\ buffering' = r.buffering
    /\ _buffer' = r._buffer
    /\ newlines' = r.newlines
    /\ written' = r.written
    /\ dataEv' = r.dataEv
    /\ errorEv' = r.errorEv
    /\ result' = IF r.thrown = "" THEN "this" ELSE r.thrown
    /\ UNCHANGED <<bold, italic, inverse, underline, constructed, newlineListeners>>

\* a stream object with its write and isTTY properties
Stream(writeProperty, isTTY) ==
    [t |-> "object", write |-> writeProperty, isTTY |-> isTTY]

\* a stream check that accepts any object
streamCheck_anyObject(stream) ==
    IF typeOf(stream) # "object" THEN "Error"
    ELSE IF stream = Null THEN "TypeError"
    ELSE "ok"

\* typeof stream !== 'object' || typeof stream.write !== 'function': the error
\* the constructor ends with, "ok" when it goes on (reading null.write throws)
streamCheck(stream) ==
    IF typeOf(stream) # "object" THEN "Error"
    ELSE IF stream = Null THEN "TypeError"
    ELSE IF typeOf(stream.write) # "function" THEN "Error"
    ELSE "ok"

\* the fields of a controller made with enabled e and buffering b
Fresh(e, b) ==
    [enabled |-> e, buffering |-> b, _buffer |-> <<>>, newlines |-> 0,
     written |-> <<>>, dataEv |-> <<>>, errorEv |-> <<>>, thrown |-> ""]

\* new Cursor(stream, options), followed by at most `steps` operations
Cursor(stream, options, steps) ==
    LET ok == streamCheck(stream) = "ok"
        e0 == IF Falsy(options) THEN options ELSE options.enabled
        e1 == IF typeOf(e0) = "undefined" THEN stream.isTTY ELSE e0
        b0 == IF Falsy(options) THEN options ELSE options.buffering
        fields == IF ok THEN Fresh(~Falsy(e1), ~Falsy(b0)) ELSE Fresh(FALSE, FALSE)
    IN  /\ enabled = fields.enabled
        /\ buffering = fields.buffering
        /\ _buffer = <<>>
        /\ bold = FALSE
        /\ italic = FALSE
        /\ inverse = FALSE
        /\ underline = FALSE
        /\ newlines = 0
        /\ written = <<>>
        /\ dataEv = <<>>
        /\ errorEv = <<>>
        /\ constructed = ok
        /\ newlineListeners = IF ok THEN 1 ELSE 0
        /\ op = [name |-> "Cursor", args |-> <<stream, options>>]
        /\ result = IF ok THEN "this" ELSE streamCheck(stream)
        /\ pre = fields
        /\ run = NoRun
        /\ budget = IF ok THEN steps ELSE 0

\* an options object
Options(e, b) == [t |-> "object", enabled |-> e, buffering |-> b]

\* the constructions explored
OptionValues ==
    {Undef} \cup {Options(e, b) : e \in {Bool(TRUE), Bool(FALSE)}, b \in {Undef, Bool(TRUE)}}

\* a terminal stream
TTYStream == Stream(Function, Bool(TRUE))

\* the stream arguments and options explored under SpecCtor
StreamValues ==
    {Undef, Null, Num(1), Str(<<"o", "u", "t">>), Function}
    \cup {Stream(w, tty) : w \in {Undef, Str(<<"w">>), Function},
                           tty \in {Undef, Bool(TRUE), Bool(FALSE)}}
CtorOptionValues ==
    {Undef, Null}
    \cup {Options(e, b) : e \in {Undef, Bool(TRUE), Bool(FALSE), Num(1)},
                          b \in {Undef, Bool(TRUE), Bool(FALSE)}}

\* inputs of the operations
WriteArgs ==
    {<<Str(<<"a">>)>>, <<Str(<<"b", "\n", "\n">>)>>,
     <<Str(<<"c", "\n">>), Str(<<"u", "t", "f", "8">>)>>, <<>>}
MovementCalls ==
    {<<n_moveUp, <<>>>>, <<n_goto, <<Num(2), Undef>>>>}
ActionCalls == {n_hide}
AxisArgs ==
    {<<>>, <<Undef>>, <<NaN>>, <<Infinity>>, <<Tenths(37)>>, <<Tenths(-37)>>,
     <<Num(-2)>>, <<Num(2), Undef>>, <<Tenths(37), Tenths(-37)>>}
AxisCalls == {<<m, a>> : m \in {n_moveUp, n_goto}, a \in AxisArgs}
MoveValues == {Num(-2), Num(0), Num(3)}
EraseTypes ==
    {Str(<<"$">>), Str(<<"^">>), Str(<<"s", "c", "r", "e", "e", "n">>),
     Str(<<"b", "o", "g", "u", "s">>), Undef}
DeleteCalls ==
    {<<Str(<<"l", "i", "n", "e">>), Num(2)>>, <<Str(<<"c", "h", "a", "r">>), Undef>>,
     <<Str(<<"b", "o", "g", "u", "s">>), Num(2)>>, <<Undef, Num(2)>>}
InsertModes ==
    {Bool(TRUE), Bool(FALSE), Str(<<"l", "i", "n", "e">>), Str(<<"c", "h", "a", "r">>),
     Str(<<"n", "o", "n", "s", "e", "n", "s", "e">>)}
InsertCounts == {Undef, Num(0), Num(3)}
AttributeFlags == {Undef, Bool(TRUE)}

Enable ==
    /\ budget > 0
    /\ Call("enable", <<>>, enable(Self))

Disable ==
    /\ budget > 0
    /\ Call("disable", <<>>, disable(Self))

Write ==
    \E args \in WriteArgs :
        /\ budget > 0
        /\ Call("write", args, write(Self, args))

Buffer ==
    /\ budget > 0
    /\ Call("buffer", <<>>, buffer(Self))

Flush ==
    /\ budget > 0
    /\ Call("flush", <<>>, flush(Self))

Movement ==
    \E c \in MovementCalls :
        /\ budget > 0
        /\ Call("movement", c, movement(Self, c[1], c[2]))

\* a generated movement method called with every kind of argument
MovementAxis ==
    \E c \in AxisCalls :
        /\ budget > 0
        /\ Call("movement", c, movement(Self, c[1], c[2]))

Action ==
    \E m \in ActionCalls :
        /\ budget > 0
        /\ Call("action", <<m>>, action(Self, m))

Move ==
    \E x \in MoveValues, y \in MoveValues :
        /\ budget > 0
        /\ Call("move", <<x, y>>, move(Self, x, y))

Beep ==
    /\ budget > 0
    /\ Call("beep", <<>>, beep(Self))

Erase ==
    \E type \in EraseTypes :
        /\ budget > 0
        /\ Call("erase", <<type>>, erase(Self, type))

Delete ==
    \E c \in DeleteCalls :
        /\ budget > 0
        /\ Call("delete", c, delete(Self, c[1], c[2]))

Insert ==
    \E mode \in InsertModes, n \in InsertCounts :
        /\ budget > 0
        /\ Call("insert", <<mode, n>>, insert(Self, mode, n))

Save ==
    \E w \in AttributeFlags :
        /\ budget > 0
        /\ Call("save", <<w>>, save(Self, w))

Restore ==
    \E w \in AttributeFlags :
        /\ budget > 0
        /\ Call("restore", <<w>>, restore(Self, w))

Init ==
    /\ \E options \in OptionValues : Cursor(TTYStream, options, MaxSteps)
    /\ accepted = NotTracked

Next ==
    \/ Enable
    \/ Disable
    \/ Write
    \/ Buffer
    \/ Flush
    \/ Movement
    \/ Action
    \/ Move
    \/ Beep
    \/ Erase
    \/ Delete
    \/ Insert
    \/ Save
    \/ Restore

Spec == Init /\ [][Next]_vars

\* the buffering protocol alone, followed further
InitBuf ==
    /\ \E options \in OptionValues : Cursor(TTYStream, options, MaxBufSteps)
    /\ accepted = NotTracked

NextBuf ==
    \/ Enable
    \/ Disable
    \/ Write
    \/ Buffer
    \/ Flush
    \/ Beep

SpecBuf == InitBuf /\ [][NextBuf]_vars

\* the movement methods and their arguments, on controllers in every mode
NextAxis ==
    \/ Enable
    \/ Disable
    \/ Buffer
    \/ Flush
    \/ MovementAxis

SpecAxis == Init /\ [][NextAxis]_vars

\* every kind of construction, followed by any operation
InitCtor ==
    /\ \E stream \in StreamValues, options \in CtorOptionValues :
            Cursor(stream, options, MaxCtorSteps)
    /\ accepted = NotTracked

SpecCtor == InitCtor /\ [][Next]_vars

\* writes and gated operations interleaved with the flag setters and flush(),
\* with the accepted payloads recorded
InitOrder ==
    /\ \E options \in OptionValues : Cursor(TTYStream, options, MaxOrderSteps)
    /\ accepted = [tracked |-> TRUE, text |-> <<>>]

NextOrder ==
    \/ Enable
    \/ Disable
    \/ Write
    \/ Buffer
    \/ Flush
    \/ Beep
    \/ Action
    \/ Save
    \/ Restore

SpecOrder == InitOrder /\ [][NextOrder]_vars

-----------------------------------------------------------------------------
(* What the last operation did *)

\* the stream write calls made during the last operation
NewWritten == SubSeq(written, Len(pre.written) + 1, Len(written))

\* the entries the last operation queued
NewBuffered == SubSeq(_buffer, Len(pre._buffer) + 1, Len(_buffer))

\* the last operation made no stream write and emitted no 'data' event
StreamUntouched == written = pre.written /\ dataEv = pre.dataEv

\* the strings of a list of string values, concatenated in order
RECURSIVE ConcatPayloads(_)
ConcatPayloads(ps) ==
    IF ps = <<>> THEN <<>> ELSE Head(ps).s \o ConcatPayloads(Tail(ps))

-----------------------------------------------------------------------------
(* C1: from an empty buffer, buffer() then single-argument writes p1..pk then *)
(* flush() make exactly one stream write in all, of p1..pk concatenated in    *)
(* call order, and leave buffering false and the buffer empty.                *)
C1_BufferWritesFlush ==
    run.phase = "flushed" =>
        /\ result = "this"
        /\ Len(written) = run.base + 1
        /\ SubSeq(written, 1, run.base) = SubSeq(pre.written, 1, run.base)
        /\ written[Len(written)] = <<Str(ConcatPayloads(run.payloads))>>
        /\ buffering = FALSE
        /\ _buffer = <<>>

\* buffer(), write('a'), write('b\n\n'), flush() has run
C1_Witness ==
    /\ run.phase = "flushed"
    /\ run.payloads = <<Str(<<"a">>), Str(<<"b", "\n", "\n">>)>>
    /\ written[Len(written)] = <<Str(<<"a", "b", "\n", "\n">>)>>

(* C3: the buffer is non-empty only if buffering is true. *)
C3_BufferOnlyWhileBuffering == _buffer # <<>> => buffering

(* C7: write is not gated by enabled; while buffering it queues its whole     *)
(* argument list and leaves the stream alone, otherwise it makes one stream   *)
(* write with the same arguments and emits one 'data' event with the first    *)
(* argument, leaving the buffer alone; it returns the controller.             *)
C7_WriteQueuesOrWritesThrough ==
    op.name = "write" =>
        /\ result = "this"
        /\ enabled = pre.enabled
        /\ buffering = pre.buffering
        /\ IF pre.buffering
           THEN /\ _buffer = pre._buffer \o <<op.args>>
                /\ StreamUntouched
           ELSE /\ written = pre.written \o <<op.args>>
                /\ dataEv = pre.dataEv \o <<IF op.args = <<>> THEN Undef ELSE op.args[1]>>
                /\ _buffer = pre._buffer

\* a two-argument write was queued on a disabled controller that had an entry queued
C7_Witness ==
    /\ op.name = "write"
    /\ Len(op.args) = 2
    /\ ~pre.enabled
    /\ pre.buffering
    /\ Len(pre._buffer) = 1
    /\ Len(_buffer) = 2

(* C8: flush() throws whenever an entry of the buffer was queued by a write   *)
(* with other than one argument, and then writes nothing to the stream.       *)
C8_FlushThrowsOnMultiArgEntry ==
    (op.name = "flush" /\ \E i \in DOMAIN pre._buffer : Len(pre._buffer[i]) # 1) =>
        /\ result = "Error"
        /\ StreamUntouched

\* flush() was called with a valid entry queued ahead of a two-argument one
C8_Witness ==
    /\ op.name = "flush"
    /\ Len(pre._buffer) = 2
    /\ Len(pre._buffer[1]) = 1
    /\ Len(pre._buffer[2]) = 2
    /\ result = "Error"

-----------------------------------------------------------------------------
\* the payloads the last operation issued through write(): queued when the
\* controller was buffering, written to the stream otherwise
Emitted == IF pre.buffering THEN NewBuffered ELSE NewWritten

\* the last operation touched nothing but the place its payloads go to
EmittedOnly ==
    /\ enabled = pre.enabled
    /\ buffering = pre.buffering
    /\ IF pre.buffering
       THEN StreamUntouched /\ SubSeq(_buffer, 1, Len(pre._buffer)) = pre._buffer
       ELSE _buffer = pre._buffer /\ SubSeq(written, 1, Len(pre.written)) = pre.written

\* the state the last operation left, as a record with its outcome
After == [Self EXCEPT !.thrown = IF result = "this" THEN "" ELSE result]

ModeLine == Str(<<"l", "i", "n", "e">>)
ModeChar == Str(<<"c", "h", "a", "r">>)
TypeBogus == Str(<<"b", "o", "g", "u", "s">>)
TypeScreen == Str(<<"s", "c", "r", "e", "e", "n">>)
ModeNonsense == Str(<<"n", "o", "n", "s", "e", "n", "s", "e">>)

(* C2: on a disabled controller a gated operation (generated movement or     *)
(* action method, beep, move, valid insert, save, restore) makes no stream    *)
(* write and queues nothing, whatever buffering is.                           *)
C2_DisabledGatedOpsAreSilent ==
    (/\ ~pre.enabled
     /\ \/ op.name \in {"movement", "action", "beep", "move", "save", "restore"}
        \/ (op.name = "insert"
            /\ op.args[1] \in {Bool(TRUE), Bool(FALSE), ModeLine, ModeChar}))
    => (StreamUntouched /\ _buffer = pre._buffer)

\* move(3, -2) was called on a disabled, buffering controller holding one entry
C2_Witness ==
    /\ ~pre.enabled
    /\ pre.buffering
    /\ op = [name |-> "move", args |-> <<Num(3), Num(-2)>>]
    /\ Len(_buffer) = 1

\* erase, delete or insert was called with a type it does not know
UnknownTypeCall ==
    \/ (op.name = "erase" /\ op.args[1] \in {Undef, TypeBogus})
    \/ (op.name = "delete" /\ op.args[1] \in {Undef, TypeBogus})
    \/ (op.name = "insert" /\ op.args[1] = ModeNonsense)

(* C4: erase, delete and insert called with an unknown type do not throw:    *)
(* they raise exactly one 'error' event whose message names the type, write   *)
(* and queue nothing, leave enabled and buffering alone and return the        *)
(* controller.                                                                *)
C4_UnknownTypeRaisesErrorEvent ==
    UnknownTypeCall =>
        /\ result = "this"
        /\ Len(errorEv) = Len(pre.errorEv) + 1
        /\ LET msg == errorEv[Len(errorEv)]
               type == JsString(op.args[1])
           IN  SubSeq(msg, Len(msg) - Len(type) + 1, Len(msg)) = type
        /\ StreamUntouched
        /\ _buffer = pre._buffer
        /\ enabled = pre.enabled
        /\ buffering = pre.buffering

\* the sequence a movement method emits for the magnitude k
MovementSequence(methodName, k) ==
    <<Str(prefix \o NatToString(k) \o movements[methodName])>>

\* what move(x, y) is to emit: the vertical sequence, then the horizontal one
MoveExpected(x, y) ==
    (IF y.n < 0 THEN <<MovementSequence(n_moveUp, -y.n)>>
     ELSE IF y.n > 0 THEN <<MovementSequence(n_moveDown, y.n)>>
     ELSE <<>>)
    \o
    (IF x.n > 0 THEN <<MovementSequence(n_forward, x.n)>>
     ELSE IF x.n < 0 THEN <<MovementSequence(n_backward, -x.n)>>
     ELSE <<>>)

(* C5: on an enabled controller move(x, y) emits at most two sequences, the  *)
(* vertical one (moveUp(-y) if y < 0, moveDown(y) if y > 0) before the        *)
(* horizontal one (forward(x) if x > 0, backward(-x) if x < 0).               *)
C5_MoveVerticalThenHorizontal ==
    (pre.enabled /\ op.name = "move") =>
        /\ result = "this"
        /\ Emitted = MoveExpected(op.args[1], op.args[2])
        /\ Len(Emitted) <= 2
        /\ EmittedOnly

\* move(3, -2) wrote moveUp(2) and then forward(3) to the stream
C5_Witness ==
    /\ pre.enabled
    /\ ~pre.buffering
    /\ op = [name |-> "move", args |-> <<Num(3), Num(-2)>>]
    /\ Len(NewWritten) = 2
    /\ NewWritten[1] = <<Str(prefix \o <<"2">> \o movements[n_moveUp])>>
    /\ NewWritten[2] = <<Str(prefix \o <<"3">> \o movements[n_forward])>>

\* the newline characters of the data of every stream write call of a log
RECURSIVE NewlinesWritten(_)
NewlinesWritten(log) ==
    IF log = <<>> THEN 0
    ELSE LET call == Head(log)
             data == IF call # <<>> /\ call[1].t = "string" THEN call[1].s ELSE <<>>
         IN  Cardinality({i \in DOMAIN data : data[i] = "\n"})
             + NewlinesWritten(Tail(log))

(* C6: the newline counter equals the number of newline characters in all    *)
(* the payloads written to the stream since construction, whatever enabled    *)
(* and buffering are; queued payloads count only once flushed; it never       *)
(* decreases.                                                                 *)
C6_NewlinesCountWrittenNewlines ==
    /\ newlines = NewlinesWritten(written)
    /\ newlines >= pre.newlines

\* a flush on a disabled controller delivered two queued newlines
C6_Witness ==
    /\ op.name = "flush"
    /\ ~enabled
    /\ pre.newlines = 0
    /\ pre._buffer # <<>>
    /\ newlines = 2

(* C9: dispatch by name equals the direct call: erase('$') is eraseRight(),  *)
(* erase('^') is eraseLeft(), erase(T) is the method 'erase' + capitalised T  *)
(* called with no argument, delete(T, n) is the method 'delete' +             *)
(* capitalised T called with n.                                               *)
C9_DispatchEqualsDirectCall ==
    /\ (op.name = "erase" /\ op.args[1] = Str(<<"$">>))
            => After = action(pre, n_eraseRight)
    /\ (op.name = "erase" /\ op.args[1] = Str(<<"^">>))
            => After = action(pre, n_eraseLeft)
    /\ (op.name = "erase" /\ op.args[1] = TypeScreen)
            => After = action(pre, n_eraseScreen)
    /\ (op.name = "delete" /\ op.args[1] = ModeLine)
            => After = movement(pre, n_deleteLine, <<op.args[2]>>)
    /\ (op.name = "delete" /\ op.args[1] = ModeChar)
            => After = movement(pre, n_deleteChar, <<op.args[2]>>)

\* delete('char', undefined) wrote what deleteChar(undefined) writes
C9_Witness ==
    /\ op = [name |-> "delete", args |-> <<ModeChar, Undef>>]
    /\ pre.enabled
    /\ ~pre.buffering
    /\ NewWritten = <<<<Str(prefix \o <<"1">> \o movements[n_deleteChar])>>>>

\* the count insert() is to format: 1 for a falsy n
InsertCount(n) ==
    IF n \in {Undef, Num(0)} THEN <<"1">>
    ELSE IF n = Num(3) THEN <<"3">>
    ELSE <<"?">>

(* C10: on an enabled controller insert emits exactly one sequence:          *)
(* prefix + '4h' for true, prefix + 'l' for false, prefix + n + 'L' for       *)
(* 'line' and prefix + n + '@' for 'char', a falsy n being replaced by 1.     *)
C10_InsertEmitsOneSequence ==
    (pre.enabled /\ op.name = "insert" /\ op.args[1] # ModeNonsense) =>
        /\ result = "this"
        /\ EmittedOnly
        /\ Emitted =
            <<<<Str(prefix \o
                (CASE op.args[1] = Bool(TRUE) -> <<"4", "h">>
                   [] op.args[1] = Bool(FALSE) -> <<"l">>
                   [] op.args[1] = ModeLine -> InsertCount(op.args[2]) \o <<"L">>
                   [] op.args[1] = ModeChar -> InsertCount(op.args[2]) \o <<"@">>))>>>>

\* insert('line') queued prefix + '1L' on an enabled, buffering controller
C10_Witness ==
    /\ op = [name |-> "insert", args |-> <<ModeLine, Undef>>]
    /\ pre.enabled
    /\ pre.buffering
    /\ NewBuffered = <<<<Str(<<"ESC", "[", "1", "L">>)>>>>

-----------------------------------------------------------------------------
\* the code save or restore is to issue for its argument
SaveRestoreCode(name, withAttributes) ==
    IF name = "save"
    THEN (IF withAttributes = Bool(TRUE) THEN codes.saveCursor ELSE codes.savePosition)
    ELSE (IF withAttributes = Bool(TRUE) THEN codes.restoreCursor
          ELSE codes.restorePosition)

(* C11: save and restore act only if enabled is true and then issue exactly  *)
(* one write: the full-cursor-state code when withAttributes is truthy, the   *)
(* position-only code when it is falsy; when disabled they change nothing.    *)
C11_SaveRestoreOneWrite ==
    op.name \in {"save", "restore"} =>
        /\ result = "this"
        /\ IF pre.enabled
           THEN /\ Emitted = <<<<Str(SaveRestoreCode(op.name, op.args[1]))>>>>
                /\ EmittedOnly
           ELSE After = pre

\* save(true) wrote the full-cursor-state code to the stream
C11_Witness ==
    /\ op = [name |-> "save", args |-> <<Bool(TRUE)>>]
    /\ pre.enabled
    /\ ~pre.buffering
    /\ NewWritten = <<<<Str(codes.saveCursor)>>>>

(* C13 as stated: on an enabled, buffering controller save and restore write *)
(* their code to the stream during the call and queue nothing.                *)
C13_SaveRestoreNeverBuffered ==
    (op.name \in {"save", "restore"} /\ pre.enabled /\ pre.buffering) =>
        /\ NewWritten = <<<<Str(SaveRestoreCode(op.name, op.args[1]))>>>>
        /\ _buffer = pre._buffer

(* C13 amended: save and restore pass _write by but not the queue: on an     *)
(* enabled, buffering controller their code is appended to the buffer as one  *)
(* entry and nothing is written to the stream during the call.                *)
C13_SaveRestoreAreBuffered ==
    (op.name \in {"save", "restore"} /\ pre.enabled /\ pre.buffering) =>
        /\ _buffer = pre._buffer \o <<<<Str(SaveRestoreCode(op.name, op.args[1]))>>>>
        /\ StreamUntouched
        /\ newlines = pre.newlines
        /\ buffering

\* save() queued the position-only code behind an entry already queued
C13_Witness ==
    /\ op = [name |-> "save", args |-> <<Undef>>]
    /\ pre.enabled
    /\ pre.buffering
    /\ Len(pre._buffer) = 1
    /\ _buffer[2] = <<Str(codes.savePosition)>>
    /\ written = <<>>

-----------------------------------------------------------------------------
(* C12: construction throws, and no controller is created and no newline     *)
(* subscription is made, whenever the stream argument is not an object with   *)
(* a write function.                                                          *)
C12_InvalidStreamThrows ==
    (/\ op.name = "Cursor"
     /\ ~(op.args[1].t = "object" /\ op.args[1].write = Function))
    => /\ result \in {"Error", "TypeError"}
       /\ ~constructed
       /\ newlineListeners = 0
       /\ budget = 0

\* construction on an object whose write property is a string has thrown
C12_Witness ==
    /\ op.name = "Cursor"
    /\ op.args[1] = Stream(Str(<<"w">>), Bool(TRUE))
    /\ result = "Error"
    /\ ~constructed

(* C17: right after a successful construction enabled is the boolean value   *)
(* of options.enabled when that option is supplied and of stream.isTTY        *)
(* otherwise, buffering is the boolean value of options.buffering (false      *)
(* when absent), the buffer is empty, the four attributes are false, the      *)
(* newline counter is 0 and nothing has been written.                         *)
C17_ConstructedState ==
    (op.name = "Cursor" /\ result = "this") =>
        LET stream == op.args[1]
            options == op.args[2]
            enabledSupplied == options.t = "object" /\ options.enabled # Undef
            bufferingSupplied == options.t = "object" /\ options.buffering # Undef
        IN  /\ enabled = IF enabledSupplied THEN ~Falsy(options.enabled)
                         ELSE ~Falsy(stream.isTTY)
            /\ buffering = IF bufferingSupplied THEN ~Falsy(options.buffering)
                           ELSE FALSE
            /\ _buffer = <<>>
            /\ ~bold /\ ~italic /\ ~inverse /\ ~underline
            /\ newlines = 0
            /\ written = <<>>

-----------------------------------------------------------------------------
\* the digits a movement method is to emit for one argument: 1 for undefined,
\* NaN and Infinity, the floor otherwise (3.7 gives 3, -3.7 gives -4)
AxisText(v) ==
    CASE v \in {Undef, NaN, Infinity} -> <<"1">>
      [] v = Tenths(37) -> <<"3">>
      [] v = Tenths(-37) -> <<"-", "4">>
      [] v = Num(-2) -> <<"-", "2">>
      [] v = Num(2) -> <<"2">>

\* the arguments' digits joined with ';'
RECURSIVE AxisList(_)
AxisList(args) ==
    IF Len(args) = 1 THEN AxisText(args[1])
    ELSE AxisText(args[1]) \o <<";">> \o AxisList(Tail(args))

(* C14: on an enabled controller a generated movement method emits exactly   *)
(* one sequence: prefix + code with no argument, otherwise prefix + the       *)
(* arguments normalised by toAxis and joined with ';' + code, toAxis being 1  *)
(* for undefined, NaN and non-finite values and the floor for the others.     *)
C14_MovementEmitsAxisList ==
    (op.name = "movement" /\ pre.enabled /\ op.args \in AxisCalls) =>
        /\ result = "this"
        /\ EmittedOnly
        /\ Emitted =
            <<<<Str(prefix
                    \o (IF op.args[2] = <<>> THEN <<>> ELSE AxisList(op.args[2]))
                    \o movements[op.args[1]])>>>>

\* goto(3.7, -3.7) wrote prefix + '3;-4' + code
C14_Witness ==
    /\ op.name = "movement"
    /\ op.args = <<n_goto, <<Tenths(37), Tenths(-37)>>>>
    /\ pre.enabled
    /\ ~pre.buffering
    /\ NewWritten = <<<<Str(<<"ESC", "[", "3", ";", "-", "4">> \o movements[n_goto])>>>>

-----------------------------------------------------------------------------
(* C15: flush() with nothing queued does not fail in any state: it leaves    *)
(* buffering false and the buffer empty and makes a single stream write       *)
(* whose payload is the empty string.                                         *)
C15_FlushOfEmptyQueue ==
    (op.name = "flush" /\ pre._buffer = <<>>) =>
        /\ result = "this"
        /\ buffering = FALSE
        /\ _buffer = <<>>
        /\ NewWritten = <<<<Str(<<>>)>>>>
        /\ SubSeq(written, 1, Len(pre.written)) = pre.written
        /\ newlines = pre.newlines
        /\ enabled = pre.enabled

\* flush() was called on a disabled, buffering controller with nothing queued
C15_Witness ==
    /\ op.name = "flush"
    /\ pre._buffer = <<>>
    /\ pre.buffering
    /\ ~pre.enabled
    /\ result = "this"
    /\ Len(written) = Len(pre.written) + 1

(* C16: enable(), disable() and buffer() change their own flag only: no      *)
(* stream write, no change of the buffer, of the other flag, of the           *)
(* attributes or of the newline counter; called on a controller whose flag    *)
(* is already set they change nothing.                                        *)
C16_FlagSettersFrame ==
    /\ op.name = "enable" => After = [pre EXCEPT !.enabled = TRUE]
    /\ op.name = "disable" => After = [pre EXCEPT !.enabled = FALSE]
    /\ op.name = "buffer" => After = [pre EXCEPT !.buffering = TRUE]
    /\ (op.name = "enable" /\ pre.enabled) => After = pre
    /\ (op.name = "disable" /\ ~pre.enabled) => After = pre
    /\ (op.name = "buffer" /\ pre.buffering) => After = pre
    /\ op.name \in {"enable", "disable", "buffer"} =>
            (~bold /\ ~italic /\ ~inverse /\ ~underline)

\* buffer() was called again on a buffering controller with two entries queued
C16_Witness ==
    /\ op.name = "buffer"
    /\ pre.buffering
    /\ Len(pre._buffer) = 2
    /\ Len(_buffer) = 2

\* an entry queued by a write with other than one argument
HasInvalidEntry(queue) == \E i \in DOMAIN queue : Len(queue[i]) # 1

(* C19: a flush() that fails on a multi-argument entry leaves buffering      *)
(* false and every entry queued; from then on every flush() fails again, the  *)
(* queued entries never reach the stream, and writes go straight to the       *)
(* stream, ahead of the entries queued before them.                           *)
C19_FailedFlushStrandsQueue ==
    /\ (op.name = "flush" /\ HasInvalidEntry(pre._buffer)) =>
            /\ result = "Error"
            /\ buffering = FALSE
            /\ _buffer = pre._buffer
            /\ written = pre.written
    /\ HasInvalidEntry(pre._buffer) =>
            /\ Len(_buffer) >= Len(pre._buffer)
            /\ SubSeq(_buffer, 1, Len(pre._buffer)) = pre._buffer
    /\ (op.name = "write" /\ HasInvalidEntry(pre._buffer) /\ ~pre.buffering) =>
            /\ written = pre.written \o <<op.args>>
            /\ _buffer = pre._buffer

\* a second flush() failed, after a write that followed the first failure had
\* gone to the stream past the stranded entry
C19_Witness ==
    /\ op.name = "flush"
    /\ result = "Error"
    /\ ~pre.buffering
    /\ HasInvalidEntry(pre._buffer)
    /\ written = <<<<Str(<<"a">>)>>>>
    /\ _buffer = pre._buffer

(* C20: the enabled gate acts when a sequence is issued, not when it is      *)
(* delivered: flush() delivers what is queued whether the controller is       *)
(* enabled or not, disable() removes nothing from the buffer, and a sequence  *)
(* issued while disabled is never queued, so no later flush delivers it.      *)
C20_GateAtIssueNotDelivery ==
    /\ (op.name = "flush" /\ ~HasInvalidEntry(pre._buffer)) =>
            /\ NewWritten =
                <<<<Str(ConcatPayloads([i \in DOMAIN pre._buffer |-> pre._buffer[i][1]]))>>>>
            /\ _buffer = <<>>
    /\ op.name = "disable" => _buffer = pre._buffer
    /\ (op.name = "beep" /\ ~pre.enabled) =>
            (_buffer = pre._buffer /\ written = pre.written)
    /\ (op.name = "beep" /\ pre.enabled /\ pre.buffering) =>
            _buffer = pre._buffer \o <<<<Str(beepCode)>>>>

\* a beep queued while enabled was delivered by flush() after disable()
C20_Witness ==
    /\ op.name = "flush"
    /\ ~pre.enabled
    /\ pre._buffer = <<<<Str(beepCode)>>>>
    /\ NewWritten = <<<<Str(beepCode)>>>>

-----------------------------------------------------------------------------
\* the first arguments of a list of argument lists
Firsts(calls) == [i \in DOMAIN calls |-> calls[i][1]]

(* C18: no loss, duplication or reordering: while only single-argument       *)
(* writes, gated operations, buffer(), flush(), enable() and disable() have   *)
(* been called, the payloads delivered to the stream followed by the entries  *)
(* still queued are, concatenated, the accepted payloads in call order.       *)
C18_NoLossDuplicationReordering ==
    accepted.tracked =>
        /\ \A i \in DOMAIN written : Len(written[i]) = 1
        /\ \A i \in DOMAIN _buffer : Len(_buffer[i]) = 1
        /\ ConcatPayloads(Firsts(written)) \o ConcatPayloads(Firsts(_buffer))
                = accepted.text

\* flush() delivered a queued write and a queued beep in one stream write, in
\* call order
C18_Witness ==
    /\ accepted.tracked
    /\ op.name = "flush"
    /\ Len(pre._buffer) = 2
    /\ pre._buffer[1] # pre._buffer[2]
    /\ pre._buffer[2] = <<Str(beepCode)>>
    /\ NewWritten = <<<<Str(accepted.text)>>>>

====
